---- MODULE Spec2Model ----
(***************************************************************************)
(* A model of johnsnow_dashboard_app.py: a Streamlit script that loads two *)
(* geometry layers (cholera deaths, water pumps) through a cached loader,  *)
(* composes a folium map from them and the sidebar options, embeds the map *)
(* through a temporary HTML file and shows a statistics panel.             *)
(*                                                                         *)
(* One run of the script is one render.  The state that survives a render  *)
(* is the st.cache_data cache of load_data, the files in the temporary     *)
(* directory and the dataset on storage; the page of the last render and   *)
(* of the one before are kept to state the claims about what is shown.     *)
(*                                                                         *)
(* Library behaviour the script relies on, modelled by what it does:       *)
(*   gpd.read_file      raises when the path or the layer is missing       *)
(*   GeoDataFrame.to_crs transforms every coordinate (here: a translation  *)
(*                      by the offset between the two reference systems)   *)
(*                      and raises for a system with no transformation     *)
(*   GeoSeries.x / .y   raise ValueError unless every geometry is a Point  *)
(*   Series.mean        is NaN on an empty series                          *)
(*   folium.Map         raises ValueError on a NaN location                *)
(*   st.cache_data      stores the return value and the st.* elements the  *)
(*                      call emitted, and replays them on a hit            *)
(*   NamedTemporaryFile(delete=False) leaves the file in place on close    *)
(* Count values are integers (no null Count) and coordinates are small     *)
(* integers standing for degrees.                                          *)
(***************************************************************************)
EXTENDS Integers, Sequences, FiniteSets, TLC

VARIABLES
    disk,       \* the dataset directory Data/cholera-deaths on storage
    cache,      \* st.cache_data's entry for load_data()
    loads,      \* how many times the body of load_data has run
    tmpfiles,   \* names of the files present in the temporary directory
    renders,    \* script runs so far
    page,       \* what the last script run put on the page
    prev        \* what the run before it put on the page

vars == <<disk, cache, loads, tmpfiles, renders, page, prev>>

----------------------------------------------------------------------------
(* Bounds of the model *)

MaxDeaths == 2
MaxPumps == 2
MaxLoadRows == 1
MaxRenders == 2

----------------------------------------------------------------------------
(* Values *)

\* Python's None, and a layer that the dataset does not hold.
None == [kind |-> "None"]
NoLayer == [kind |-> "Missing"]

IsNone(v) == v.kind = "None"

\* shapely geometries: a Point exposes x and y, a LineString only coords.
Point(px, py) == [kind |-> "Point", x |-> px, y |-> py]
LineString(cs) == [kind |-> "LineString", coords |-> cs]

\* coordinate reference systems a layer can declare; NoCRS is crs = None.
NoCRS == "None"
WGS84 == "EPSG:4326"
BNG == "EPSG:27700"
LocalCS == "LOCAL_CS"

CrsAll == {NoCRS, WGS84, BNG, LocalCS}
CrsProjected == {WGS84, BNG}

GeoDataFrame(c, rs) == [kind |-> "GeoDataFrame", crs |-> c, rows |-> rs]

\* rows the death layer and the pump layer are drawn from
DeathRowPool ==
    { [geometry |-> Point(1, 2), Count |-> 3],
      [geometry |-> Point(3, 0), Count |-> 1],
      [geometry |-> LineString(<<<<2, 1>>, <<4, 4>>>>), Count |-> 2] }

PumpRowPool ==
    { [geometry |-> Point(2, 3)],
      [geometry |-> LineString(<<<<0, 1>>, <<5, 5>>>>)] }

SeqsUpTo(S, n) == UNION { [1..k -> S] : k \in 0..n }

\* a layer without a Count column: every row loses the attribute
DropCount(rs) == [i \in 1..Len(rs) |-> [geometry |-> rs[i].geometry]]

DeathLayers(crss, n) ==
    { GeoDataFrame(c, rs) : c \in crss, rs \in SeqsUpTo(DeathRowPool, n) }
    \cup { GeoDataFrame(c, DropCount(rs)) : c \in crss, rs \in SeqsUpTo(DeathRowPool, n) }
    \cup { NoLayer }

PumpLayers(crss, n) ==
    { GeoDataFrame(c, rs) : c \in crss, rs \in SeqsUpTo(PumpRowPool, n) }
    \cup { NoLayer }

Disks(crss, nd, np) ==
    [ present : BOOLEAN,
      Cholera_Deaths : DeathLayers(crss, nd),
      Pumps : PumpLayers(crss, np) ]

----------------------------------------------------------------------------
(* load_data: lines 26-46 *)

Ok(v) == [ok |-> TRUE, value |-> v, error |-> ""]
Raise(e) == [ok |-> FALSE, value |-> None, error |-> e]

\* gpd.read_file(shapefile_path, layer=...): lines 32-33
read_file(d, layer) ==
    IF ~d.present THEN Raise("DataSourceError: Data/cholera-deaths: no such file or directory")
    ELSE IF d[layer].kind = "Missing" THEN Raise("ValueError: layer not found")
    ELSE Ok(d[layer])

\* position of a reference system's origin in the common frame
CrsOffset(c) == IF c = BNG THEN <<10, 20>> ELSE <<0, 0>>

TransformXY(xy, src, dst) ==
    << xy[1] + CrsOffset(src)[1] - CrsOffset(dst)[1],
       xy[2] + CrsOffset(src)[2] - CrsOffset(dst)[2] >>

TransformGeometry(g, src, dst) ==
    IF g.kind = "Point"
    THEN LET q == TransformXY(<<g.x, g.y>>, src, dst) IN Point(q[1], q[2])
    ELSE LineString([i \in 1..Len(g.coords) |-> TransformXY(g.coords[i], src, dst)])

\* GeoDataFrame.to_crs(target): lines 37, 39
to_crs(gdf, target) ==
    IF gdf.crs = LocalCS THEN Raise("ProjError: no transformation available")
    ELSE Ok(GeoDataFrame(target,
            [i \in 1..Len(gdf.rows) |->
                [gdf.rows[i] EXCEPT !.geometry = TransformGeometry(@, gdf.crs, target)]]))

\* a faulty variant of NeedsReprojection: the comparison with the target inverted
NeedsReprojectionInverted(gdf) == gdf.crs # NoCRS /\ gdf.crs = WGS84

\* "if gdf.crs and gdf.crs != 'EPSG:4326'": lines 36, 38
NeedsReprojection(gdf) == gdf.crs # NoCRS /\ gdf.crs # WGS84

\* "Convert to WGS84 if needed": lines 36-37 and 38-39
Reproject(gdf) == IF NeedsReprojection(gdf) THEN to_crs(gdf, WGS84) ELSE Ok(gdf)

\* st.error(...)
StError(text) == [element |-> "error", text |-> text]

\* the except branch: lines 42-44
LoadFailed(e) ==
    [value |-> <<None, None>>, messages |-> <<StError(<<"Error loading data: ", e>>)>>]

\* a faulty variant of load_data_body: the pump layer's failure keeps the death layer
load_data_partial(d) ==
    LET rd == read_file(d, "Cholera_Deaths")
        rp == read_file(d, "Pumps")
        deaths == IF rd.ok THEN Reproject(rd.value) ELSE rd
        pumps == IF rp.ok THEN Reproject(rp.value) ELSE rp
    IN  [value |-> << IF deaths.ok THEN deaths.value ELSE None,
                      IF pumps.ok THEN pumps.value ELSE None >>,
         messages |-> IF deaths.ok /\ pumps.ok THEN <<>>
                      ELSE <<StError(<<"Error loading data: ",
                                       IF deaths.ok THEN pumps.error ELSE deaths.error>>)>>]

\* the body of load_data: lines 27-44
load_data_body(d) ==
    LET rd == read_file(d, "Cholera_Deaths") IN
    IF ~rd.ok THEN LoadFailed(rd.error) ELSE
    LET rp == read_file(d, "Pumps") IN
    IF ~rp.ok THEN LoadFailed(rp.error) ELSE
    LET deaths == Reproject(rd.value) IN
    IF ~deaths.ok THEN LoadFailed(deaths.error) ELSE
    LET pumps == Reproject(rp.value) IN
    IF ~pumps.ok THEN LoadFailed(pumps.error) ELSE
    [value |-> <<deaths.value, pumps.value>>, messages |-> <<>>]

EmptyCache == [filled |-> FALSE, value |-> <<None, None>>, messages |-> <<>>]

\* a faulty variant of load_data: no cache, the body runs on every call
load_data_uncached(c, d) ==
    LET r == load_data_body(d)
    IN  [value |-> r.value, messages |-> r.messages, ran |-> 1,
         cache |-> [filled |-> TRUE, value |-> r.value, messages |-> r.messages]]

\* load_data under @st.cache_data: lines 26-27, called at line 46.  A miss
\* runs the body and stores its return value with the elements it emitted;
\* a hit returns the stored value and replays the stored elements.
load_data(c, d) ==
    IF c.filled
    THEN [value |-> c.value, messages |-> c.messages, ran |-> 0, cache |-> c]
    ELSE LET r == load_data_body(d)
         IN  [value |-> r.value, messages |-> r.messages, ran |-> 1,
              cache |-> [filled |-> TRUE, value |-> r.value, messages |-> r.messages]]

----------------------------------------------------------------------------
(* Sidebar options: lines 56-63 *)

HeatmapRadiusDefault == 15
HeatmapBlurDefault == 10
\* opacities are in tenths: 0.6 is 6, 0.3 is 3
HeatmapOpacityDefault == 6
HeatmapMinOpacity == 3
ZoomStart == 17

\* the three checkboxes, any combination; the sliders at their defaults
Options ==
    [ show_heatmap : BOOLEAN,
      show_skeletons : BOOLEAN,
      show_pump_labels : BOOLEAN,
      heatmap_radius : {HeatmapRadiusDefault},
      heatmap_blur : {HeatmapBlurDefault},
      heatmap_opacity : {HeatmapOpacityDefault} ]

----------------------------------------------------------------------------
(* Map composition: lines 49-51 and 65-144 *)

RECURSIVE SumSeq(_)
SumSeq(xs) == IF xs = <<>> THEN 0 ELSE Head(xs) + SumSeq(Tail(xs))

\* Series.mean(): the exact quotient sum / n, NaN when the series is empty
Mean(xs) == [sum |-> SumSeq(xs), n |-> Len(xs)]
IsNaN(m) == m.n = 0

\* hasattr(row.geometry, 'x') and hasattr(row.geometry, 'y'): lines 78, 98, 120
HasXY(g) == g.kind = "Point"

\* the geometry access with its fallback: lines 78-81, 98-101, 120-123
LatLon(g) ==
    IF HasXY(g) THEN <<g.y, g.x>>
    ELSE <<g.coords[1][2], g.coords[1][1]>>

\* deaths_gdf.geometry.y / .x: lines 50-51; defined for Point geometries only
AllPoints(gdf) == \A i \in 1..Len(gdf.rows) : gdf.rows[i].geometry.kind = "Point"
GeometryY(gdf) == [i \in 1..Len(gdf.rows) |-> gdf.rows[i].geometry.y]
GeometryX(gdf) == [i \in 1..Len(gdf.rows) |-> gdf.rows[i].geometry.x]

\* center_lat, center_lon: lines 50-51
center_lat(gdf) == Mean(GeometryY(gdf))
center_lon(gdf) == Mean(GeometryX(gdf))

\* a faulty variant of weight: the Count attribute ignored
WeightIgnoringCount(row) == 1

\* weight = row['Count'] if 'Count' in row else 1: line 83
weight(row) == IF "Count" \in DOMAIN row THEN row.Count ELSE 1

\* heat_data: lines 76-84
heat_data(gdf) ==
    [i \in 1..Len(gdf.rows) |->
        LET ll == LatLon(gdf.rows[i].geometry)
        IN  <<ll[1], ll[2], weight(gdf.rows[i])>>]

\* HeatMap(heat_data, ...): lines 86-93
HeatMapLayer(gdf, opts) ==
    [element |-> "HeatMap",
     data |-> heat_data(gdf),
     min_opacity |-> HeatmapMinOpacity,
     max_opacity |-> opts.heatmap_opacity,
     radius |-> opts.heatmap_radius,
     blur |-> opts.heatmap_blur]

\* the skeleton marker of the row with index label idx = i - 1: lines 103-116
DeathMarker(i, row) ==
    [element |-> "Marker",
     icon |-> "skeleton",
     location |-> LatLon(row.geometry),
     popup |-> [title |-> "Cholera Death #", number |-> (i - 1) + 1,
                count |-> IF "Count" \in DOMAIN row THEN <<row.Count>> ELSE <<>>],
     tooltip |-> [title |-> "Cholera Death ", number |-> (i - 1) + 1]]

\* the pump marker: lines 125-130
PumpMarker(i, row) ==
    [element |-> "Marker",
     icon |-> "cog",
     location |-> LatLon(row.geometry),
     popup |-> [title |-> "Water Pump #", number |-> (i - 1) + 1],
     tooltip |-> [title |-> "Water Pump ", number |-> (i - 1) + 1]]

\* the pump label: lines 134-141
PumpLabel(i, row) ==
    [element |-> "Marker",
     icon |-> "label",
     location |-> LatLon(row.geometry),
     text |-> [title |-> "Pump ", number |-> (i - 1) + 1]]

LayerControl == [element |-> "LayerControl"]

\* "if show_heatmap:": lines 75-93
HeatmapBlock(deaths, opts) ==
    IF opts.show_heatmap THEN <<HeatMapLayer(deaths, opts)>> ELSE <<>>

\* a faulty variant of SkeletonBlock: the marker loop nested in the heatmap block
SkeletonBlockUnderHeatmap(deaths, opts) ==
    IF opts.show_skeletons /\ opts.show_heatmap
    THEN [i \in 1..Len(deaths.rows) |-> DeathMarker(i, deaths.rows[i])]
    ELSE <<>>

\* "if show_skeletons:": lines 96-116
SkeletonBlock(deaths, opts) ==
    IF opts.show_skeletons
    THEN [i \in 1..Len(deaths.rows) |-> DeathMarker(i, deaths.rows[i])]
    ELSE <<>>

\* the pump loop from row i on: lines 119-141
RECURSIVE PumpLoop(_, _, _)
PumpLoop(pumps, opts, i) ==
    IF i > Len(pumps.rows) THEN <<>>
    ELSE <<PumpMarker(i, pumps.rows[i])>>
         \o (IF opts.show_pump_labels THEN <<PumpLabel(i, pumps.rows[i])>> ELSE <<>>)
         \o PumpLoop(pumps, opts, i + 1)

\* a faulty variant of MapChildren: the pump loop moved above the skeleton loop
MapChildrenPumpsFirst(deaths, pumps, opts) ==
    HeatmapBlock(deaths, opts)
    \o PumpLoop(pumps, opts, 1)
    \o SkeletonBlock(deaths, opts)
    \o <<LayerControl>>

\* what is added to the map, in the order of the add_to calls: lines 74-144
MapChildren(deaths, pumps, opts) ==
    HeatmapBlock(deaths, opts)
    \o SkeletonBlock(deaths, opts)
    \o PumpLoop(pumps, opts, 1)
    \o <<LayerControl>>

----------------------------------------------------------------------------
(* The page of one script run: lines 46-195 *)

NoMap == [built |-> FALSE, location |-> <<>>, zoom_start |-> ZoomStart, children |-> <<>>]

BlankPage ==
    [ran |-> FALSE,
     options |-> <<>>,          \* the values of the sidebar controls, when rendered
     errors |-> <<>>,           \* the st.error elements, in order
     exception |-> "",          \* the uncaught exception that ended the run
     controls |-> FALSE,        \* the sidebar checkboxes and sliders
     map |-> NoMap,             \* the folium map m
     html |-> <<>>,             \* the name of the file whose text st.components.v1.html was given
     stats |-> <<>>,            \* the values of the two st.metric calls
     about |-> FALSE]           \* the sidebar footer

\* the run ends in an uncaught exception: nothing after the raising line runs.
\* The sidebar controls of lines 54-63 are on the page, with their values,
\* only when the exception is raised after them.
Aborted(opts, msgs, e, withControls) ==
    [BlankPage EXCEPT !.ran = TRUE, !.errors = msgs, !.exception = e,
                      !.controls = withControls,
                      !.options = IF withControls THEN opts ELSE <<>>]

\* the else branch and the footer: lines 179-195
ErrorPanel(msgs) ==
    [BlankPage EXCEPT !.ran = TRUE,
        !.errors = msgs \o <<StError(<<"Could not load the data. Please check if the data folder exists.">>)>>,
        !.about = TRUE]

\* the main branch once the map is built: lines 66-177, then the footer
Dashboard(opts, msgs, deaths, pumps, tmpname) ==
    LET m == [built |-> TRUE,
              location |-> <<center_lat(deaths), center_lon(deaths)>>,
              zoom_start |-> ZoomStart,
              children |-> MapChildren(deaths, pumps, opts)]
    IN  [BlankPage EXCEPT !.ran = TRUE, !.options = opts, !.errors = msgs,
            !.controls = TRUE,
            !.map = m,
            !.html = <<tmpname>>,
            !.stats = <<Len(deaths.rows), Len(pumps.rows)>>,
            !.about = TRUE]

\* the script from line 46 on, given what load_data returned and emitted
Script(value, msgs, opts, tmpname) ==
    LET deaths == value[1]
        pumps == value[2]
    IN  IF ~IsNone(deaths) /\ ~IsNone(pumps)
        THEN IF ~AllPoints(deaths)
             THEN Aborted(opts, msgs, "ValueError: y attribute access only provided for Point geometries", FALSE)
             ELSE IF IsNaN(center_lat(deaths)) \/ IsNaN(center_lon(deaths))
             THEN Aborted(opts, msgs, "ValueError: Location values cannot contain NaNs.", TRUE)
             ELSE Dashboard(opts, msgs, deaths, pumps, tmpname)
        ELSE ErrorPanel(msgs)

\* tempfile.NamedTemporaryFile(delete=False, suffix='.html'): lines 151-153.
\* The file is created under a fresh name and is still there when the with
\* block closes it; the script never unlinks it.
FreshTempName(files) == Cardinality(files) + 1

TempFilesAfter(files, pg) ==
    IF pg.map.built THEN files \cup {FreshTempName(files)} ELSE files

----------------------------------------------------------------------------
(* The state machine *)

InitWith(D) ==
    /\ disk \in D
    /\ cache = EmptyCache
    /\ loads = 0
    /\ tmpfiles = {}
    /\ renders = 0
    /\ page = BlankPage
    /\ prev = BlankPage

\* the two layers of a dataset declare the same reference system
SameCrs(d) ==
    (d.Cholera_Deaths.kind = "GeoDataFrame" /\ d.Pumps.kind = "GeoDataFrame")
        => d.Cholera_Deaths.crs = d.Pumps.crs

\* datasets in one projected reference system, layers of up to MaxDeaths and
\* MaxPumps rows
Init == InitWith({ d \in Disks(CrsProjected, MaxDeaths, MaxPumps) : SameCrs(d) })

\* datasets with every reference system, layers of up to MaxLoadRows rows
InitLoad == InitWith(Disks(CrsAll, MaxLoadRows, MaxLoadRows))

\* one run of the script with the sidebar set to opts
Render(opts) ==
    /\ renders < MaxRenders
    /\ \E r \in {load_data(cache, disk)} :
          /\ cache' = r.cache
          /\ loads' = loads + r.ran
          /\ page' = Script(r.value, r.messages, opts, FreshTempName(tmpfiles))
    /\ prev' = page
    /\ tmpfiles' = TempFilesAfter(tmpfiles, page')
    /\ renders' = renders + 1
    /\ UNCHANGED disk

\* the environment: the dataset directory is removed or put back
StorageChange ==
    /\ disk' = [disk EXCEPT !.present = ~@]
    /\ UNCHANGED <<cache, loads, tmpfiles, renders, page, prev>>

Next ==
    \/ \E opts \in Options : Render(opts)
    \/ StorageChange

Spec == Init /\ [][Next]_vars

SpecLoad == InitLoad /\ [][Next]_vars

----------------------------------------------------------------------------
(* Vocabulary of the claims *)

LoadedDeaths == cache.value[1]
LoadedPumps == cache.value[2]

\* load_data has run and returned both layers
BothLoaded == cache.filled /\ ~IsNone(LoadedDeaths) /\ ~IsNone(LoadedPumps)

\* load_data has run and returned an absent layer
LoadFailure == cache.filled /\ (IsNone(LoadedDeaths) \/ IsNone(LoadedPumps))

\* every death record is a point, the geometry the data model asks for
PointDeaths == \A i \in 1..Len(LoadedDeaths.rows) : LoadedDeaths.rows[i].geometry.kind = "Point"

IsHeatMap(c) == c.element = "HeatMap"
IsDeathMarker(c) == c.element = "Marker" /\ c.icon = "skeleton"
IsPumpMarker(c) == c.element = "Marker" /\ c.icon = "cog"
IsPumpLabel(c) == c.element = "Marker" /\ c.icon = "label"
IsLayerControl(c) == c.element = "LayerControl"

HeatMapsOf(pg) == { i \in DOMAIN pg.map.children : IsHeatMap(pg.map.children[i]) }
DeathMarkersOf(pg) == { i \in DOMAIN pg.map.children : IsDeathMarker(pg.map.children[i]) }
PumpMarkersOf(pg) == { i \in DOMAIN pg.map.children : IsPumpMarker(pg.map.children[i]) }
PumpLabelsOf(pg) == { i \in DOMAIN pg.map.children : IsPumpLabel(pg.map.children[i]) }
LayerControlsOf(pg) == { i \in DOMAIN pg.map.children : IsLayerControl(pg.map.children[i]) }

NotHeatMap(c) == ~IsHeatMap(c)

----------------------------------------------------------------------------
(* C1 *)

\* C1: for every dataset whose two layers load, a render with 'show point
\* markers' on adds one death marker per death record, every render adds one
\* pump icon marker per pump record, and the pump labels are one per pump
\* record when 'show pump labels' is on and none when it is off.  Stated for
\* datasets of point records; the script fails it on a death layer without
\* records.
C1_MarkerCounts ==
    (page.ran /\ BothLoaded /\ PointDeaths) =>
        /\ page.options.show_skeletons =>
               Cardinality(DeathMarkersOf(page)) = Len(LoadedDeaths.rows)
        /\ Cardinality(PumpMarkersOf(page)) = Len(LoadedPumps.rows)
        /\ Cardinality(PumpLabelsOf(page)) =
               (IF page.options.show_pump_labels THEN Len(LoadedPumps.rows) ELSE 0)

----------------------------------------------------------------------------
(* C2 *)

\* the dataset as the claim describes a failing one: the path is missing, a
\* named layer cannot be read, or a layer's reprojection fails
Unreadable(d) ==
    \/ ~d.present
    \/ d.Cholera_Deaths.kind = "Missing"
    \/ d.Pumps.kind = "Missing"
    \/ d.Cholera_Deaths.crs = LocalCS
    \/ d.Pumps.crs = LocalCS

ShowsErrorPanelOnly(pg) ==
    /\ pg.errors # <<>>
    /\ ~pg.map.built
    /\ pg.map.children = <<>>
    /\ pg.html = <<>>
    /\ pg.stats = <<>>

\* C2: a render that loads an unreadable dataset gets both layers absent
\* together; after every render the two layers are present together or absent
\* together, an absent pair shows the error panel with no map and no marker,
\* and a map is only ever composed from both layers.
C2_FailsAsUnit ==
    [][ (renders' = renders + 1) =>
          /\ (~cache.filled /\ Unreadable(disk)) => cache'.value = <<None, None>>
          /\ IsNone(cache'.value[1]) <=> IsNone(cache'.value[2])
          /\ IsNone(cache'.value[1]) => ShowsErrorPanelOnly(page')
          /\ page'.map.built => (~IsNone(cache'.value[1]) /\ ~IsNone(cache'.value[2]))
      ]_vars

\* the death layer was readable, the pump layer was not, and the render
\* showed the error panel
C2_Witness ==
    /\ page.ran
    /\ disk.present
    /\ disk.Cholera_Deaths.kind = "GeoDataFrame"
    /\ disk.Cholera_Deaths.crs = WGS84
    /\ Len(disk.Cholera_Deaths.rows) > 0
    /\ disk.Pumps.kind = "Missing"
    /\ cache.value = <<None, None>>
    /\ loads = 1
    /\ ShowsErrorPanelOnly(page)

----------------------------------------------------------------------------
(* C3 *)

\* C3: whenever both layers load, the render reaches the statistics panel
\* and the two counts are the numbers of death and of pump records, also
\* when a layer has no records.  Stated for datasets of point records.
C3_StatisticsShown ==
    (page.ran /\ BothLoaded /\ PointDeaths) =>
        page.stats = <<Len(LoadedDeaths.rows), Len(LoadedPumps.rows)>>

----------------------------------------------------------------------------
(* C4 *)

OnlyHeatmapDiffers(a, b) ==
    /\ a.controls /\ b.controls
    /\ a.options.show_heatmap /\ ~b.options.show_heatmap
    /\ a.options = [b.options EXCEPT !.show_heatmap = TRUE]

\* on is a render with the heatmap, off the same render without it
HeatmapToggleHolds(on, off) ==
    /\ HeatMapsOf(off) = {}
    /\ off.map.children = SelectSeq(on.map.children, NotHeatMap)
    /\ off.map.built = on.map.built
    /\ on.map.built => Cardinality(HeatMapsOf(on)) = 1
    /\ Len(on.map.children) = Len(off.map.children) + Cardinality(HeatMapsOf(on))
    /\ off.map.location = on.map.location
    /\ off.stats = on.stats
    /\ off.errors = on.errors

\* C4: two consecutive renders of the same data that differ only in 'show
\* heatmap' differ by exactly the density layer: the render without it has
\* no density layer and the same pump markers, pump labels, death markers,
\* layer control and statistics as the render with it.
C4_HeatmapToggle ==
    (page.ran /\ prev.ran) =>
        /\ OnlyHeatmapDiffers(page, prev) => HeatmapToggleHolds(page, prev)
        /\ OnlyHeatmapDiffers(prev, page) => HeatmapToggleHolds(prev, page)

\* the heatmap was switched off between two renders of a map with death
\* markers, pump markers and pump labels
C4_Witness ==
    /\ page.ran /\ prev.ran
    /\ OnlyHeatmapDiffers(prev, page)
    /\ page.map.built /\ prev.map.built
    /\ page.options.show_skeletons /\ page.options.show_pump_labels
    /\ DeathMarkersOf(page) # {}
    /\ PumpLabelsOf(page) # {}
    /\ HeatMapsOf(prev) # {}

----------------------------------------------------------------------------
(* C5 *)

\* the entry the claim states for a death record
ClaimedHeatEntry(row) ==
    << row.geometry.y, row.geometry.x,
       IF "Count" \in DOMAIN row THEN row.Count ELSE 1 >>

\* C5: with the heatmap on, the map holds one density layer and its data is
\* one entry [lat, lon, weight] per death record, in record order, the weight
\* being the record's Count when it has one and 1 when it has none.
C5_HeatWeights ==
    (page.map.built /\ page.options.show_heatmap) =>
        /\ Cardinality(HeatMapsOf(page)) = 1
        /\ \A h \in HeatMapsOf(page) :
              /\ Len(page.map.children[h].data) = Len(LoadedDeaths.rows)
              /\ \A i \in 1..Len(LoadedDeaths.rows) :
                    page.map.children[h].data[i] = ClaimedHeatEntry(LoadedDeaths.rows[i])

\* a density layer over two death records that have no Count attribute
C5_Witness ==
    /\ page.map.built /\ page.options.show_heatmap
    /\ Len(LoadedDeaths.rows) = 2
    /\ \A i \in 1..2 : "Count" \notin DOMAIN LoadedDeaths.rows[i]
    /\ \A h \in HeatMapsOf(page) :
          \A i \in 1..2 : page.map.children[h].data[i][3] = 1

----------------------------------------------------------------------------
(* C6 *)

\* C6: on a data-load failure one error message is shown in all, no sidebar
\* control and no statistics are rendered and the About text is; on every
\* render.
C6_SingleError ==
    (page.ran /\ LoadFailure) =>
        /\ Len(page.errors) = 1
        /\ ~page.controls
        /\ page.stats = <<>>
        /\ page.about

----------------------------------------------------------------------------
(* C7 *)

\* the layer load_data returned is the stored layer normalised once
NormalisedFrom(loaded, stored) ==
    /\ stored.crs = WGS84 => loaded = stored
    /\ stored.crs = NoCRS => loaded = stored
    /\ Reproject(loaded) = Ok(loaded)
    /\ loaded.crs # NoCRS => loaded.crs = WGS84
    /\ Len(loaded.rows) = Len(stored.rows)

\* C7: after a successful load, a layer stored in EPSG:4326 is returned with
\* every coordinate unchanged, normalising a returned layer again yields the
\* same layer, and every returned layer that declares a reference system is
\* in EPSG:4326.
C7_ReprojectionIdempotent ==
    BothLoaded =>
        /\ NormalisedFrom(LoadedDeaths, disk.Cholera_Deaths)
        /\ NormalisedFrom(LoadedPumps, disk.Pumps)

\* a loaded dataset whose death layer was already in EPSG:4326 and whose
\* pump layer was reprojected, moving its coordinates
C7_Witness ==
    /\ BothLoaded
    /\ disk.Cholera_Deaths.crs = WGS84 /\ Len(disk.Cholera_Deaths.rows) > 0
    /\ LoadedDeaths.rows = disk.Cholera_Deaths.rows
    /\ disk.Pumps.crs = BNG /\ Len(disk.Pumps.rows) > 0
    /\ LoadedPumps.crs = WGS84
    /\ LoadedPumps.rows # disk.Pumps.rows

----------------------------------------------------------------------------
(* C8 *)

\* the place of a map child in the fixed order of layers
Rank(c) ==
    IF IsHeatMap(c) THEN 1
    ELSE IF IsDeathMarker(c) THEN 2
    ELSE IF IsPumpMarker(c) \/ IsPumpLabel(c) THEN 3
    ELSE 4

\* C8: in every render that builds the map the children are the density
\* layer (if enabled), then the death markers (if enabled) in record order,
\* then for each pump its marker followed by its label (if enabled), then
\* the layer control, which is last and the only one.
C8_LayerOrder ==
    page.map.built =>
        LET ch == page.map.children IN
        /\ \A i, j \in DOMAIN ch : i < j => Rank(ch[i]) <= Rank(ch[j])
        /\ Len(ch) > 0 /\ IsLayerControl(ch[Len(ch)])
        /\ Cardinality(LayerControlsOf(page)) = 1
        /\ (HeatMapsOf(page) # {}) = page.options.show_heatmap
        /\ (DeathMarkersOf(page) # {}) = page.options.show_skeletons
        /\ \A i, j \in DeathMarkersOf(page) :
              i < j => ch[i].popup.number < ch[j].popup.number
        /\ \A i \in PumpMarkersOf(page) :
              /\ i < Len(ch)
              /\ page.options.show_pump_labels =>
                    (IsPumpLabel(ch[i + 1]) /\ ch[i + 1].text.number = ch[i].popup.number)
              /\ ~page.options.show_pump_labels => ~IsPumpLabel(ch[i + 1])
        /\ \A i \in PumpLabelsOf(page) : i > 1 /\ IsPumpMarker(ch[i - 1])
        /\ \A i, j \in PumpMarkersOf(page) :
              i < j => ch[i].popup.number < ch[j].popup.number

\* a map with the density layer, two death markers and two labelled pumps
C8_Witness ==
    /\ page.map.built
    /\ page.options.show_heatmap
    /\ Cardinality(DeathMarkersOf(page)) = 2
    /\ Cardinality(PumpMarkersOf(page)) = 2
    /\ Cardinality(PumpLabelsOf(page)) = 2
    /\ Len(page.map.children) = 8

----------------------------------------------------------------------------
(* C9 *)

\* C9: after any render, and any sequence of renders, no temporary file
\* created by a render still exists.
C9_NoTempFileLeft == tmpfiles = {}

----------------------------------------------------------------------------
(* C10 *)

\* C10: the body of load_data runs at most once; a render that finds the
\* cache filled leaves it as it is, reads nothing, and shows the same layers
\* (the same counts, the same map or the same errors) as the render before.
C10_LoadedOnce ==
    [][ /\ loads' <= 1
        /\ (renders' = renders + 1 /\ cache.filled) =>
              /\ cache' = cache
              /\ loads' = loads
              /\ page'.stats = page.stats
              /\ page'.errors = page.errors
              /\ page'.map.built = page.map.built
              /\ page'.map.built =>
                    page'.stats = <<Len(cache.value[1].rows), Len(cache.value[2].rows)>>
      ]_vars

\* the dataset was removed after the first render and the second render
\* still showed the map from the cached layers
C10_Witness ==
    /\ renders = 2
    /\ loads = 1
    /\ ~disk.present
    /\ page.map.built /\ prev.map.built
    /\ page.stats = <<Len(LoadedDeaths.rows), Len(LoadedPumps.rows)>>

====
